---- MODULE Spec2Model ----
(***************************************************************************)
(* A model of api/chat.js: the serverless handler that proxies a chat      *)
(* request to the Generative API, rotating over up to five API keys.       *)
(*                                                                         *)
(* Strings are sequences of one-character strings, so that split, trim and *)
(* filter are computed as the handler computes them.  A request is a       *)
(* process p: the handler runs without interruption from its entry to the  *)
(* first await of fetch, and from the settlement of one fetch to the next  *)
(* await or to the response.                                               *)
(***************************************************************************)
EXTENDS Integers, Sequences, FiniteSets, TLC

VARIABLES
  rotationIndex,  \* the module-scoped cursor (line 6)
  env,            \* process.env: GENERATIVE_API_KEYS and GENERATIVE_API_KEY
  pc,             \* per request: "idle", "fetch", "hung", "done"
  rawKeys,        \* per request: the key string read from env (line 15)
  keys,           \* per request: the parsed pool (lines 18-22)
  attempt,        \* per request: the loop counter (line 34)
  keyIndex,       \* per request: the index of the key in use (line 35)
  results,        \* per request: the failed attempts collected (line 31)
  res,            \* per request: the response sent to the caller
  start,          \* history: the cursor when the request began
  calls,          \* history: the key index of every upstream call, in order
  outs,           \* history: every upstream outcome with the branch it took
  writes,         \* history: how many times the request wrote the cursor
  alone,          \* history: no other request was in flight during this one
  streak,         \* history: the current run of back-to-back first-try successes
  lastWrite,      \* history: the pool size and key index of the latest cursor write
  arrivals        \* history: requests of one client since the window began

vars == <<rotationIndex, env, pc, rawKeys, keys, attempt, keyIndex, results, res,
          start, calls, outs, writes, alone, streak, lastWrite, arrivals>>

----------------------------------------------------------------------------
(* Bounds of the model *)

\* the longest run of back-to-back requests followed by the streak history
MaxStreak == 3

(* Constants of the program *)

\* .slice(0, 5): at most five keys
KeyLimit == 5

\* the status recorded for a fetch that threw: the string 'network_error',
\* kept apart from every HTTP status
network_error == 0

----------------------------------------------------------------------------
(* String helpers of the key parsing, lines 15-22 *)

Min(a, b) == IF a < b THEN a ELSE b

RECURSIVE split(_, _)
\* String.prototype.split(sep): the pieces between the separators, empty
\* pieces kept; a string without separator is its own single piece
split(s, sep) ==
  IF \E i \in 1..Len(s) : s[i] = sep
  THEN LET i == CHOOSE j \in 1..Len(s) :
                  s[j] = sep /\ \A h \in 1..(j - 1) : s[h] # sep
       IN  <<SubSeq(s, 1, i - 1)>> \o split(SubSeq(s, i + 1, Len(s)), sep)
  ELSE <<s>>

RECURSIVE trim(_)
\* String.prototype.trim(): leading and trailing blanks removed
trim(s) ==
  IF s # <<>> /\ Head(s) = " " THEN trim(Tail(s))
  ELSE IF s # <<>> /\ s[Len(s)] = " " THEN trim(SubSeq(s, 1, Len(s) - 1))
  ELSE s

\* .map(k => k.trim())
mapTrim(parts) == [i \in 1..Len(parts) |-> trim(parts[i])]

\* a mutant of filterBoolean: the empty entries are kept
filterBooleanKeepsEmpty(parts) == parts

\* .filter(Boolean): the empty string is falsy and is dropped
filterBoolean(parts) == SelectSeq(parts, LAMBDA k : k # <<>>)

\* .slice(0, n)
slice(parts, n) == SubSeq(parts, 1, Min(n, Len(parts)))

\* process.env.GENERATIVE_API_KEYS || process.env.GENERATIVE_API_KEY || ''
readRawKeys(e) ==
  IF e.GENERATIVE_API_KEYS # <<>> THEN e.GENERATIVE_API_KEYS
  ELSE IF e.GENERATIVE_API_KEY # <<>> THEN e.GENERATIVE_API_KEY
  ELSE <<>>

\* const keys = rawKeys.split(',').map(k => k.trim()).filter(Boolean).slice(0, 5)
parseKeys(raw) == slice(filterBoolean(mapTrim(split(raw, ","))), KeyLimit)

----------------------------------------------------------------------------
(* The pure parts of the rotation loop *)

\* a mutant of KeyIndexAt: the sum is not reduced modulo the pool size
KeyIndexNoModulo(rot, att, total) == rot + att

\* const keyIndex = (rotationIndex + attempt) % total
KeyIndexAt(rot, att, total) == (rot + att) % total

\* a mutant of NextRotation: the cursor stays on the key that succeeded
NextRotationStays(idx, total) == idx % total

\* a mutant of NextRotation: the cursor is not wrapped at the end of the pool
NextRotationNoWrap(idx, total) == idx + 1

\* a mutant of NextRotation: the cursor skips the key after the one that succeeded
NextRotationSkips(idx, total) == (idx + 2) % total

\* rotationIndex = (keyIndex + 1) % total
NextRotation(idx, total) == (idx + 1) % total

\* a mutant of ok: only 200 counts as success
okOnly200(status) == status = 200

\* response.ok: the status is in the range 200-299
ok(status) == status >= 200 /\ status <= 299

\* a mutant of nonRetryable: the lower end of the 4xx range is excluded
nonRetryableAbove400(status) ==
  status > 400 /\ status < 500 /\ status # 401 /\ status # 403 /\ status # 429

\* a mutant of nonRetryable: 429 is not exempted
nonRetryableWith429(status) ==
  status >= 400 /\ status < 500 /\ status # 401 /\ status # 403

\* the condition of line 120: a 4xx other than 401, 403, 429
nonRetryable(status) ==
  status >= 400 /\ status < 500 /\ status # 401 /\ status # 403 /\ status # 429

\* a mutant of loopContinues: the loop runs once more than the pool has keys
loopOneMore(att, total) == att <= total

\* the loop condition of line 34: attempt < total
loopContinues(att, total) == att < total

\* const data = await response.json().catch(e => ({ parseError: String(e) }))
\* the upstream's JSON answer names the key of the call it answers
dataOf(o, key) ==
  IF o.body = "json" THEN [json |-> key] ELSE [parseError |-> "SyntaxError"]

----------------------------------------------------------------------------
(* The inputs *)

\* the requests that may be in flight at once
Procs == {"r1", "r2"}

\* req.method
Methods == {"POST", "GET"}

\* configurations of process.env; "" is the empty sequence
EnvNone    == [GENERATIVE_API_KEYS |-> <<>>, GENERATIVE_API_KEY |-> <<>>]
EnvBlank   == [GENERATIVE_API_KEYS |-> <<" ", ",", " ", ",">>,
               GENERATIVE_API_KEY  |-> <<"z">>]
EnvSingle  == [GENERATIVE_API_KEYS |-> <<>>, GENERATIVE_API_KEY |-> <<"a">>]
EnvTwo     == [GENERATIVE_API_KEYS |-> <<"a", ",", "b">>,
               GENERATIVE_API_KEY  |-> <<>>]
EnvThree   == [GENERATIVE_API_KEYS |-> <<" ", "a", ",", " ", "b", " ", ",", ",", "c">>,
               GENERATIVE_API_KEY  |-> <<"z">>]
EnvSix     == [GENERATIVE_API_KEYS |->
                 <<"a", ",", "b", ",", "c", ",", "d", ",", "e", ",", "f">>,
               GENERATIVE_API_KEY  |-> <<>>]

Envs == {EnvNone, EnvBlank, EnvSingle, EnvTwo, EnvThree}

\* what one upstream call can come to: fetch throws, or a response with a
\* status and a body that response.json() parses or fails to parse
NetworkError == [kind |-> "network_error", status |-> network_error, body |-> "none"]
Response(status, body) == [kind |-> "response", status |-> status, body |-> body]

Statuses == {200, 204, 304, 400, 401, 403, 429, 500}
Outcomes ==
  {NetworkError} \cup {Response(s, b) : s \in Statuses, b \in {"json", "unparseable"}}

----------------------------------------------------------------------------
(* The state *)

NoResponse == [code |-> 0, body |-> [none |-> TRUE]]
DeadStreak == [live |-> FALSE, init |-> 0, n |-> 0, used |-> <<>>]
NoWrite == [n |-> 0, idx |-> 0]

InFlight(q) == pc[q] \in {"fetch", "hung"}

InitOf(E) ==
  /\ rotationIndex = 0
  /\ env \in E
  /\ pc = [p \in Procs |-> "idle"]
  /\ rawKeys = [p \in Procs |-> <<>>]
  /\ keys = [p \in Procs |-> <<>>]
  /\ attempt = [p \in Procs |-> 0]
  /\ keyIndex = [p \in Procs |-> 0]
  /\ results = [p \in Procs |-> <<>>]
  /\ res = [p \in Procs |-> NoResponse]
  /\ start = [p \in Procs |-> 0]
  /\ calls = [p \in Procs |-> <<>>]
  /\ outs = [p \in Procs |-> <<>>]
  /\ writes = [p \in Procs |-> 0]
  /\ alone = [p \in Procs |-> TRUE]
  /\ streak = DeadStreak
  /\ lastWrite = NoWrite
  /\ arrivals = 0

\* res.status(code).json(body): the handler returns
Respond(p, code, body) ==
  /\ res' = [res EXCEPT ![p] = [code |-> code, body |-> body]]
  /\ pc' = [pc EXCEPT ![p] = "done"]

\* history: request p begins; the requests that completed or are in flight
\* are no longer alone with the cursor
AloneAtStart(p) ==
  alone' = [q \in Procs |->
              IF q = p THEN \A r \in Procs \ {p} : ~InFlight(r)
              ELSE IF pc[q] # "idle" THEN FALSE ELSE alone[q]]

\* lines 8-36 and 58-63: the handler from its entry to the first await
Start(p) ==
  /\ pc[p] = "idle"
  /\ AloneAtStart(p)
  /\ start' = [start EXCEPT ![p] = rotationIndex]
  /\ \E method \in Methods :
       IF method # "POST"
       THEN /\ Respond(p, 405, [error |-> "Method not allowed"])
            /\ streak' = DeadStreak
            /\ UNCHANGED <<rawKeys, keys, attempt, keyIndex, calls>>
       ELSE LET ks == parseKeys(readRawKeys(env)) IN
            /\ rawKeys' = [rawKeys EXCEPT ![p] = readRawKeys(env)]
            /\ keys' = [keys EXCEPT ![p] = ks]
            /\ IF Len(ks) = 0
               THEN /\ Respond(p, 500, [error |-> "Server not configured"])
                    /\ streak' = DeadStreak
                    /\ UNCHANGED <<attempt, keyIndex, calls>>
               ELSE LET idx == KeyIndexAt(rotationIndex, 0, Len(ks)) IN
                    /\ attempt' = [attempt EXCEPT ![p] = 0]
                    /\ keyIndex' = [keyIndex EXCEPT ![p] = idx]
                    /\ calls' = [calls EXCEPT ![p] = <<idx>>]
                    /\ pc' = [pc EXCEPT ![p] = "fetch"]
                    /\ streak' =
                         IF \E r \in Procs \ {p} : InFlight(r) THEN DeadStreak
                         ELSE IF /\ streak.live
                                 /\ streak.n = Len(ks)
                                 /\ Len(streak.used) < MaxStreak
                              THEN streak
                              ELSE [live |-> TRUE, init |-> rotationIndex,
                                    n |-> Len(ks), used |-> <<>>]
                    /\ UNCHANGED res
  /\ UNCHANGED <<rotationIndex, env, results, outs, writes, lastWrite>>

\* lines 124-134: after a retryable failure the loop goes on to the next key,
\* reading the cursor again, or ends with 502 when the pool is exhausted
Continue(p, failed) ==
  LET total == Len(keys[p])
      next  == attempt[p] + 1
  IN  /\ results' = [results EXCEPT ![p] = failed]
      /\ IF loopContinues(next, total)
         THEN LET idx == KeyIndexAt(rotationIndex, next, total) IN
              /\ attempt' = [attempt EXCEPT ![p] = next]
              /\ keyIndex' = [keyIndex EXCEPT ![p] = idx]
              /\ calls' = [calls EXCEPT ![p] = Append(@, idx)]
              /\ UNCHANGED <<pc, res>>
         ELSE /\ Respond(p, 502, [error |-> "All API keys failed",
                                  attempts |-> failed])
              /\ UNCHANGED <<attempt, keyIndex, calls>>
      /\ UNCHANGED <<rotationIndex, writes, lastWrite>>

\* lines 63-129: the awaited fetch settles with outcome o and the handler runs
\* on to the next await or to its response
FetchReturn(p, o) ==
  /\ pc[p] = "fetch"
  /\ LET total   == Len(keys[p])
         API_KEY == keys[p][keyIndex[p] + 1]
     IN
     IF o.kind = "network_error"
     THEN /\ Continue(p, Append(results[p],
                 [status |-> network_error, detail |-> [error |-> "fetch failed"]]))
          /\ outs' = [outs EXCEPT ![p] = Append(@, [o |-> o, verdict |-> "retryable"])]
          /\ streak' = DeadStreak
     ELSE LET data == dataOf(o, API_KEY) IN
          IF ok(o.status)
          THEN /\ rotationIndex' = NextRotation(keyIndex[p], total)
               /\ writes' = [writes EXCEPT ![p] = @ + 1]
               /\ lastWrite' = [n |-> total, idx |-> keyIndex[p]]
               /\ Respond(p, 200, [raw |-> data])
               /\ outs' = [outs EXCEPT ![p] = Append(@, [o |-> o, verdict |-> "success"])]
               /\ streak' = IF streak.live /\ attempt[p] = 0
                            THEN [streak EXCEPT !.used = Append(@, keyIndex[p])]
                            ELSE DeadStreak
               /\ UNCHANGED <<attempt, keyIndex, calls, results>>
          ELSE LET failed == Append(results[p], [status |-> o.status, detail |-> data]) IN
               IF nonRetryable(o.status)
               THEN /\ results' = [results EXCEPT ![p] = failed]
                    /\ Respond(p, o.status,
                               [error |-> "External API error", details |-> data])
                    /\ outs' = [outs EXCEPT ![p] =
                                  Append(@, [o |-> o, verdict |-> "terminal"])]
                    /\ streak' = DeadStreak
                    /\ UNCHANGED <<rotationIndex, writes, lastWrite, attempt, keyIndex,
                                   calls>>
               ELSE /\ Continue(p, failed)
                    /\ outs' = [outs EXCEPT ![p] =
                                  Append(@, [o |-> o, verdict |-> "retryable"])]
                    /\ streak' = DeadStreak
  /\ UNCHANGED <<env, rawKeys, keys, start, alone>>

\* lines 63-72: fetch is given no signal and no timeout; an upstream that
\* never answers leaves the await pending for good
Hang(p) ==
  /\ pc[p] = "fetch"
  /\ pc' = [pc EXCEPT ![p] = "hung"]
  /\ UNCHANGED <<rotationIndex, env, rawKeys, keys, attempt, keyIndex, results,
                 res, start, calls, outs, writes, alone, streak, lastWrite>>

\* the invocation is over: its locals are gone
Finish(p) ==
  /\ pc[p] = "done"
  /\ pc' = [pc EXCEPT ![p] = "idle"]
  /\ rawKeys' = [rawKeys EXCEPT ![p] = <<>>]
  /\ keys' = [keys EXCEPT ![p] = <<>>]
  /\ attempt' = [attempt EXCEPT ![p] = 0]
  /\ keyIndex' = [keyIndex EXCEPT ![p] = 0]
  /\ results' = [results EXCEPT ![p] = <<>>]
  /\ res' = [res EXCEPT ![p] = NoResponse]
  /\ start' = [start EXCEPT ![p] = 0]
  /\ calls' = [calls EXCEPT ![p] = <<>>]
  /\ outs' = [outs EXCEPT ![p] = <<>>]
  /\ writes' = [writes EXCEPT ![p] = 0]
  /\ alone' = [alone EXCEPT ![p] = TRUE]
  /\ UNCHANGED <<rotationIndex, env, streak, lastWrite>>

\* the deployment's environment variables are changed (lines 15-16 read them
\* anew on every request)
Reconfigure(e) ==
  /\ e # env
  /\ env' = e
  /\ streak' = IF parseKeys(readRawKeys(e)) = parseKeys(readRawKeys(env))
               THEN streak ELSE DeadStreak
  /\ UNCHANGED <<rotationIndex, pc, rawKeys, keys, attempt, keyIndex, results,
                 res, start, calls, outs, writes, alone, lastWrite>>

----------------------------------------------------------------------------
(* The specifications *)

\* one request at a time, every outcome of an upstream call
Init == InitOf(Envs)

Request(p) == Start(p) /\ UNCHANGED arrivals

Settle(p) == \E o \in Outcomes : FetchReturn(p, o) /\ UNCHANGED arrivals

Stall(p) == Hang(p) /\ UNCHANGED arrivals

Return(p) == Finish(p) /\ UNCHANGED arrivals

Redeploy == \E e \in Envs : Reconfigure(e) /\ UNCHANGED arrivals

Next ==
  \/ Request("r1")
  \/ Settle("r1")
  \/ Stall("r1")
  \/ Return("r1")
  \/ Redeploy

Spec == Init /\ [][Next]_vars

\* the same, under the scheduling the runtime guarantees: a fetch that
\* settles resumes the handler, and a handler that has answered returns
FairSpec == Spec /\ WF_vars(Settle("r1")) /\ WF_vars(Return("r1"))

\* one client's requests counted over a window of the admission quota: the
\* quota of the specification's scenario (windowMs = 10000, max = 5)
MaxRequests == 5

AdmissionOutcomes ==
  {NetworkError, Response(200, "json"), Response(400, "json"), Response(429, "json")}

AdmissionInit == InitOf({EnvSingle, EnvTwo})

\* the client sends one more request within the window
ClientRequest(p) ==
  /\ arrivals <= MaxRequests
  /\ Start(p)
  /\ arrivals' = arrivals + 1

AdmissionSettle(p) ==
  \E o \in AdmissionOutcomes : FetchReturn(p, o) /\ UNCHANGED arrivals

\* windowMs go by without a request of the client
WindowPasses ==
  /\ arrivals > 0
  /\ \A p \in Procs : pc[p] = "idle"
  /\ arrivals' = 0
  /\ UNCHANGED <<rotationIndex, env, pc, rawKeys, keys, attempt, keyIndex,
                 results, res, start, calls, outs, writes, alone, streak,
                 lastWrite>>

AdmissionNext ==
  \/ ClientRequest("r1")
  \/ AdmissionSettle("r1")
  \/ Return("r1")
  \/ WindowPasses

AdmissionSpec == AdmissionInit /\ [][AdmissionNext]_vars

\* two requests interleaved at their awaits, over pools of up to three keys
\* and one outcome of each kind: a success, a terminal and a retryable status
ConcOutcomes == {Response(200, "json"), Response(400, "json"), Response(429, "json")}

ConcEnvs == {EnvNone, EnvTwo, EnvThree}

ConcInit == InitOf(ConcEnvs)

ConcSettle(p) == \E o \in ConcOutcomes : FetchReturn(p, o) /\ UNCHANGED arrivals

ConcRedeploy == \E e \in ConcEnvs : Reconfigure(e) /\ UNCHANGED arrivals

ConcNext ==
  \/ \E p \in Procs : Request(p)
  \/ \E p \in Procs : ConcSettle(p)
  \/ \E p \in Procs : Return(p)
  \/ ConcRedeploy

ConcSpec == ConcInit /\ [][ConcNext]_vars

\* one request at a time over a configuration of six keys, of which the
\* handler keeps five, and one outcome of each kind
CapOutcomes == {Response(200, "json"), Response(400, "json"), Response(429, "json")}

CapEnvs == {EnvSingle, EnvSix}

CapInit == InitOf(CapEnvs)

CapSettle(p) == \E o \in CapOutcomes : FetchReturn(p, o) /\ UNCHANGED arrivals

CapRedeploy == \E e \in CapEnvs : Reconfigure(e) /\ UNCHANGED arrivals

CapNext ==
  \/ Request("r1")
  \/ CapSettle("r1")
  \/ Stall("r1")
  \/ Return("r1")
  \/ CapRedeploy

CapSpec == CapInit /\ [][CapNext]_vars

----------------------------------------------------------------------------
(* The vocabulary of the claims *)

\* a success status
SuccessStatus(o) == o.kind = "response" /\ o.status >= 200 /\ o.status <= 299

\* a retryable failure as the specification lists them: a network error,
\* 401, 403, 429, or a status of the 5xx range
ListedRetryable(o) ==
  \/ o.kind = "network_error"
  \/ /\ o.kind = "response"
     /\ \/ o.status \in {401, 403, 429}
        \/ o.status >= 500 /\ o.status <= 599

\* a terminal status: a 4xx other than 401, 403, 429
TerminalStatus(o) ==
  /\ o.kind = "response"
  /\ o.status >= 400 /\ o.status <= 499
  /\ o.status \notin {401, 403, 429}

\* the outcome of the request's latest upstream call
LastOut(p) == outs[p][Len(outs[p])].o

\* the key of the request's i-th upstream call
KeyOfCall(p, i) == keys[p][calls[p][i] + 1]

\* a raw key string that holds no key: nothing but separators and blanks
HoldsNoKey(raw) == \A i \in 1..Len(raw) : raw[i] \in {",", " "}

----------------------------------------------------------------------------
(* C1: a request that runs with no other request in flight, whose first k   *)
(* upstream calls each give a listed retryable failure and whose call k+1   *)
(* returns a success status, has made exactly k+1 calls, with the keys      *)
(* (start+0) mod N, ..., (start+k) mod N in that order, has answered 200    *)
(* with the payload of the last key, and has left the cursor at             *)
(* (start+k+1) mod N.                                                       *)
C1_FirstSuccessAfterFailures ==
  \A p \in Procs :
    ( /\ pc[p] # "idle"
      /\ alone[p]
      /\ outs[p] # <<>>
      /\ \A i \in 1..(Len(outs[p]) - 1) : ListedRetryable(outs[p][i].o)
      /\ SuccessStatus(LastOut(p)) )
    => LET k == Len(outs[p]) - 1
           N == Len(keys[p])
       IN  /\ pc[p] = "done"
           /\ Len(calls[p]) = k + 1
           /\ \A i \in 0..k : calls[p][i + 1] = (start[p] + i) % N
           /\ res[p].code = 200
           /\ LastOut(p).body = "json"
                => res[p].body = [raw |-> [json |-> keys[p][((start[p] + k) % N) + 1]]]
           /\ rotationIndex = (start[p] + k + 1) % N

\* the instance of the specification: pool of 3, cursor 0, k1 -> 429, k2 -> 200
C1_Witness ==
  \E p \in Procs :
    /\ pc[p] = "done"
    /\ alone[p]
    /\ keys[p] = <<<<"a">>, <<"b">>, <<"c">>>>
    /\ start[p] = 0
    /\ Len(outs[p]) = 2
    /\ outs[p][1].o = Response(429, "json")
    /\ outs[p][2].o = Response(200, "json")
    /\ calls[p] = <<0, 1>>
    /\ res[p] = [code |-> 200, body |-> [raw |-> [json |-> <<"b">>]]]
    /\ rotationIndex = 2

(* C2: when every one of the N keys of a request gave a listed retryable    *)
(* failure, the request has answered 502 'All API keys failed' with exactly *)
(* N attempt records, the i-th being the record of the i-th call, and it    *)
(* has not written the cursor, which has its value of before the request.   *)
C2_ExhaustionAnswers502 ==
  \A p \in Procs :
    ( /\ pc[p] # "idle"
      /\ Len(keys[p]) > 0
      /\ Len(outs[p]) = Len(keys[p])
      /\ \A i \in 1..Len(outs[p]) : ListedRetryable(outs[p][i].o) )
    => /\ pc[p] = "done"
       /\ res[p].code = 502
       /\ res[p].body.error = "All API keys failed"
       /\ Len(res[p].body.attempts) = Len(keys[p])
       /\ Len(calls[p]) = Len(keys[p])
       /\ \A i \in 1..Len(keys[p]) :
            /\ res[p].body.attempts[i].status = outs[p][i].o.status
            /\ outs[p][i].o.body = "json"
                 => res[p].body.attempts[i].detail = [json |-> KeyOfCall(p, i)]
       /\ writes[p] = 0
       /\ alone[p] => rotationIndex = start[p]

\* a pool of three exhausted from a cursor that is not 0
C2_Witness ==
  \E p \in Procs :
    /\ pc[p] = "done"
    /\ res[p].code = 502
    /\ Len(keys[p]) = 3
    /\ start[p] = 1
    /\ calls[p] = <<1, 2, 0>>
    /\ outs[p][1].o = Response(429, "json")
    /\ outs[p][2].o = NetworkError
    /\ outs[p][3].o = Response(500, "json")
    /\ rotationIndex = 1

(* C3: when an upstream call at any position j returned a terminal status   *)
(* (a 4xx other than 401, 403, 429), that call is the request's last: the   *)
(* request has answered with that same status and an {error, details}       *)
(* envelope, and has made no call after the j-th.                           *)
C3_TerminalStatusStopsRotation ==
  \A p \in Procs :
    \A j \in 1..Len(outs[p]) :
      TerminalStatus(outs[p][j].o)
      => /\ j = Len(outs[p])
         /\ Len(calls[p]) = j
         /\ pc[p] = "done"
         /\ res[p].code = outs[p][j].o.status
         /\ DOMAIN res[p].body = {"error", "details"}
         /\ res[p].body.details = dataOf(outs[p][j].o, KeyOfCall(p, j))

\* a terminal 400 at the second position of a pool of three
C3_Witness ==
  \E p \in Procs :
    /\ pc[p] = "done"
    /\ Len(keys[p]) = 3
    /\ Len(outs[p]) = 2
    /\ outs[p][1].o = Response(401, "json")
    /\ outs[p][2].o = Response(400, "json")
    /\ Len(calls[p]) = 2
    /\ res[p].code = 400

(* C4: a request that has ended in success or in a terminal failure has     *)
(* written the cursor exactly once, to (idx + 1) mod n for the index idx of *)
(* the last key tried; a request that has ended in exhaustion has not       *)
(* written it.                                                              *)
C4_CursorWrittenOnSuccessAndTerminal ==
  \A p \in Procs :
    (pc[p] = "done" /\ outs[p] # <<>>)
    => /\ (SuccessStatus(LastOut(p)) \/ TerminalStatus(LastOut(p)))
            => /\ writes[p] = 1
               /\ alone[p] => rotationIndex = (keyIndex[p] + 1) % Len(keys[p])
       /\ res[p].code = 502 /\ ~TerminalStatus(LastOut(p)) /\ ~SuccessStatus(LastOut(p))
            => writes[p] = 0

(* C5: in a run of M requests executed one after another against a fixed    *)
(* pool of N keys, each succeeding on its first upstream call, begun with   *)
(* the cursor at `initial`, the cursor is (initial + M) mod N and the i-th  *)
(* request used the key (initial + i - 1) mod N.  (Before the first request *)
(* of the run, M = 0, the cursor is `initial` itself, which is below N      *)
(* unless an earlier, larger pool left it stale.)                           *)
C5_RoundRobin ==
  streak.live
  => /\ (Len(streak.used) >= 1 \/ streak.init < streak.n)
          => rotationIndex = (streak.init + Len(streak.used)) % streak.n
     /\ \A i \in 1..Len(streak.used) :
          streak.used[i] = (streak.init + i - 1) % streak.n

\* a run as long as the model follows, over a pool of two, so that the
\* rotation wraps around
C5_Witness ==
  /\ streak.live
  /\ Len(streak.used) >= 3
  /\ streak.n = 2
  /\ streak.init = 1
  /\ \A p \in Procs : pc[p] = "idle"

(* C6: every upstream outcome that is not a success status is treated as    *)
(* retryable if and only if it is a network error, 401, 403, 429 or a 5xx,  *)
(* and as terminal if and only if it is any other 4xx.                      *)
C6_FailureClassification ==
  \A p \in Procs :
    \A i \in 1..Len(outs[p]) :
      ~SuccessStatus(outs[p][i].o)
      => /\ outs[p][i].verdict = "retryable" <=> ListedRetryable(outs[p][i].o)
         /\ outs[p][i].verdict = "terminal" <=> TerminalStatus(outs[p][i].o)

(* C7: a response whose body is not parseable JSON is treated as a          *)
(* retryable failure whatever its status: it never yields a 200 to the      *)
(* caller nor a write of the cursor.                                        *)
C7_UnparseableBodyIsRetryable ==
  \A p \in Procs :
    \A i \in 1..Len(outs[p]) :
      (outs[p][i].o.kind = "response" /\ outs[p][i].o.body = "unparseable")
      => /\ outs[p][i].verdict = "retryable"
         /\ i = Len(outs[p]) => (res[p].code # 200 /\ writes[p] = 0)

(* C8: a request that finds no key in the configured string (nothing left   *)
(* after splitting, trimming and dropping the empty entries) has answered   *)
(* 500, not the 502 of exhaustion, has made no upstream call and has left   *)
(* the cursor as it was.                                                    *)
C8_EmptyPoolAnswers500 ==
  \A p \in Procs :
    (pc[p] # "idle" /\ res[p].code # 405 /\ HoldsNoKey(rawKeys[p]))
    => /\ pc[p] = "done"
       /\ res[p].code = 500
       /\ res[p].body # [error |-> "All API keys failed", attempts |-> <<>>]
       /\ calls[p] = <<>>
       /\ outs[p] = <<>>
       /\ writes[p] = 0
       /\ alone[p] => rotationIndex = start[p]

\* a key string of blanks and commas only, met with the cursor off 0
C8_Witness ==
  \E p \in Procs :
    /\ pc[p] = "done"
    /\ res[p].code = 500
    /\ rawKeys[p] = <<" ", ",", " ", ",">>
    /\ calls[p] = <<>>
    /\ rotationIndex = 2

(* C9: of one client's requests within one window exactly MaxRequests are   *)
(* admitted: every further request of the window is answered 429 without    *)
(* any upstream call and without a write of the cursor.                     *)
C9_QuotaEnforcedBeforeUpstream ==
  arrivals > MaxRequests
  => \A p \in Procs :
       pc[p] # "idle"
       => /\ pc[p] = "done"
          /\ res[p].code = 429
          /\ calls[p] = <<>>
          /\ writes[p] = 0

(* C10: every upstream call is bounded by a timeout, so every request that  *)
(* has begun its upstream calls is eventually answered, also when an        *)
(* upstream call never settles.                                             *)
C10_EveryRequestAnswered ==
  \A p \in Procs : (pc[p] = "fetch") ~> (pc[p] = "done")

(* C11: also when other requests run concurrently and write the cursor, the *)
(* attempt-th upstream call of a request uses the key (start + attempt) mod *)
(* n, for the cursor value `start` read when the request began; so within   *)
(* one request no key is tried twice and none is skipped.                   *)
C11_AttemptsFollowStart ==
  \A p \in Procs :
    /\ \A i \in 1..Len(calls[p]) :
         calls[p][i] = (start[p] + (i - 1)) % Len(keys[p])
    /\ \A i, j \in 1..Len(calls[p]) : i # j => calls[p][i] # calls[p][j]

\* the size of the pool that process.env configures now
ActivePoolSize == Len(parseKeys(readRawKeys(env)))

(* C12, as stated: in every reachable state the cursor is a valid index     *)
(* into the active pool, 0 <= cursor < poolSize (stated here for the        *)
(* non-empty active pools only).                                            *)
C12_CursorIndexesActivePool ==
  ActivePoolSize > 0 => (rotationIndex >= 0 /\ rotationIndex < ActivePoolSize)

(* C12, amended: in every reachable state, under any interleaving, the      *)
(* cursor is 0 while it was never written and otherwise a valid index into  *)
(* the pool of the request that wrote it last; so it is a valid index into  *)
(* the active pool whenever that pool is non-empty and not smaller than the *)
(* last writer's pool.                                                      *)
C12_CursorIndexesWriterPool ==
  /\ rotationIndex >= 0
  /\ lastWrite.n = 0 => rotationIndex = 0
  /\ lastWrite.n > 0 => rotationIndex < lastWrite.n
  /\ (ActivePoolSize >= 1 /\ ActivePoolSize >= lastWrite.n)
       => rotationIndex < ActivePoolSize

\* the pool has grown from two keys to three since the last write, and two
\* requests with pools of different sizes are in flight
C12_Witness ==
  /\ lastWrite.n = 2
  /\ rotationIndex = 1
  /\ ActivePoolSize = 3
  /\ pc["r1"] = "fetch" /\ Len(keys["r1"]) = 2
  /\ pc["r2"] = "fetch" /\ Len(keys["r2"]) = 3

C13_OnePass ==
  \A p \in Procs :
    /\ Len(keys[p]) <= KeyLimit
    /\ Len(calls[p]) <= Len(keys[p])
    /\ Len(calls[p]) = Len(outs[p]) + (IF InFlight(p) THEN 1 ELSE 0)
    /\ res[p].code # 0 <=> pc[p] = "done"

C13_NothingAfterResponse ==
  \A p \in Procs :
    pc[p] = "done"
    => \/ calls'[p] = calls[p] /\ res'[p] = res[p] /\ pc'[p] = "done"
       \/ pc'[p] = "idle"

(* C13: a request makes at most n upstream calls, n being the size of its   *)
(* pool and at most 5; it has at most one call outstanding, a call starting *)
(* only when the previous one has settled; and it answers exactly once,     *)
(* after which it makes no further call.                                    *)
C13_OnePassThroughPool == []C13_OnePass /\ [][C13_NothingAfterResponse]_vars

\* six keys configured, five kept, all five tried, then the 502
C13_Witness ==
  \E p \in Procs :
    /\ pc[p] = "done"
    /\ res[p].code = 502
    /\ Len(split(rawKeys[p], ",")) = 6
    /\ Len(keys[p]) = 5
    /\ start[p] = 3
    /\ calls[p] = <<3, 4, 0, 1, 2>>

(* C14: the key index of every upstream call is a valid index of the pool   *)
(* of the request that makes the call, also when the stored cursor is stale *)
(* from a request that ran with a larger pool.                              *)
C14_KeyIndexWithinPool ==
  \A p \in Procs :
    /\ \A i \in 1..Len(calls[p]) :
         calls[p][i] >= 0 /\ calls[p][i] < Len(keys[p])
    /\ InFlight(p) => (keyIndex[p] >= 0 /\ keyIndex[p] < Len(keys[p]))

\* a request of a pool of two that began with the cursor at 2, left there by
\* a pool of three, and succeeded
C14_Witness ==
  \E p \in Procs :
    /\ pc[p] = "done"
    /\ res[p].code = 200
    /\ Len(keys[p]) = 2
    /\ start[p] = 2
    /\ lastWrite.n = 2

(* C15: under any interleaving the cursor is its initial value while no     *)
(* request has succeeded, and otherwise (k + 1) mod n for the key index k   *)
(* and pool size n of the request that succeeded last; a request that ended *)
(* in exhaustion, terminal failure or configuration error has not written   *)
(* it.                                                                      *)
C15_CursorFollowsLastSuccess ==
  /\ lastWrite.n = 0 => rotationIndex = 0
  /\ lastWrite.n > 0 => rotationIndex = (lastWrite.idx + 1) % lastWrite.n
  /\ \A p \in Procs :
       (pc[p] = "done" /\ res[p].code # 200) => writes[p] = 0
  /\ \A p \in Procs :
       (pc[p] = "done" /\ res[p].code = 200) => writes[p] = 1

\* one request succeeded on the last key of a pool of three while another,
\* overlapping it, ended in a terminal failure
C15_Witness ==
  \E p, q \in Procs :
    /\ p # q
    /\ pc[p] = "done" /\ res[p].code = 200 /\ keyIndex[p] = 2 /\ Len(keys[p]) = 3
    /\ pc[q] = "done" /\ res[q].code = 400 /\ Len(outs[q]) = 2
    /\ ~alone[p]
    /\ lastWrite = [n |-> 3, idx |-> 2]
    /\ rotationIndex = 0

====
